---- MODULE Spec2Model ----
(***************************************************************************)
(* Order lifecycle and driver assignment of the food-ordering application: *)
(* the order router (create, list, update, status update, track,           *)
(* assign-driver), the order / driver / notification stores it works on,   *)
(* and the clock.                                                          *)
(*                                                                         *)
(* Every handler is an async function.  The assign-driver handler is       *)
(* modelled await by await, so that several requests interleave; the other *)
(* handlers perform at most one store mutation and are one action each.    *)
(*                                                                         *)
(* Spec is the whole router.  SpecAssign and SpecSeq are the assignment    *)
(* flow (create, update, assign-driver), interleaved and one request at a  *)
(* time; SpecCreate is creation with the single-step updates; SpecList and *)
(* SpecTrack add the two read handlers to creation and update;             *)
(* SpecResponses serves every writing handler an accepted and a rejected   *)
(* input; SpecCancel is the update path with assigned orders.              *)
(*                                                                         *)
(* The clients are modelled on top of the router: the driver dashboard     *)
(* (its two polled order lists, accept, advance and the availability       *)
(* switch) and the cart page (dishes, form validation, delivery fee and    *)
(* the order button).  SpecDash is one dashboard with the restaurant       *)
(* confirming orders, SpecAccept the same without the switch, SpecRace one *)
(* order moved forward by the dashboard and by other clients, SpecAdvance  *)
(* one order moved by the driver alone; SpecCart is the cart page with a   *)
(* typed address and SpecFee the cart with the location picker.            *)
(***************************************************************************)
EXTENDS Integers, Sequences, FiniteSets, TLC

\* ------------------------------------------------------------------ bounds
MaxOrders   == 2      \* orders the store may hold
MaxRequests == 3      \* HTTP requests issued in one behaviour
MaxTime     == 1      \* clock ticks (milliseconds) in one behaviour
MaxInFlight == 2      \* assign-driver requests in flight at once
MaxClientRequests == 4  \* further requests the dashboards and the cart may send
Epoch       == 10     \* first value of the millisecond clock

\* --------------------------------------------------------------- constants
Null == "<null>"

Statuses == {"pending", "confirmed", "preparing", "ready",
             "picked_up", "on_way", "delivered", "cancelled"}
TerminalStatuses == {"delivered", "cancelled"}
StatusInputs == Statuses \cup {"bogus"}

KnownDrivers == {"d1", "d2"}
DriverInputs == KnownDrivers \cup {"", "dX"}

OrderIds == 1 .. MaxOrders
Slots    == 1 .. MaxInFlight

OrderColumns == {"id", "orderNumber", "customerName", "customerPhone",
                 "deliveryAddress", "subtotal", "deliveryFee", "total",
                 "status", "driverId", "restaurantId", "customerId",
                 "createdAt", "updatedAt"}

\* ----------------------------------------------------------------- helpers
\* JavaScript object spread {...a, ...b}: the keys of b win.
Merge(a, b) ==
  [k \in (DOMAIN a) \cup (DOMAIN b) |-> IF k \in DOMAIN b THEN b[k] ELSE a[k]]

\* !obj.k for a string-valued property: undefined, null and "" are falsy.
Falsy(obj, k) == (k \notin DOMAIN obj) \/ (obj[k] \in {"", Null})

\* A value that may be undefined: <<>> or <<v>>.
Lookup(table, key) == IF key \in DOMAIN table THEN <<table[key]>> ELSE <<>>

DigitChar == <<"0", "1", "2", "3", "4", "5", "6", "7", "8", "9">>

\* Decimal rendering of a non-negative integer inside a template string.
RECURSIVE Dec(_)
Dec(n) ==
  IF n < 10 THEN <<DigitChar[n + 1]>>
  ELSE Dec(n \div 10) \o <<DigitChar[(n % 10) + 1]>>

\* Math.floor(Math.random() * 1000) lies in 0 .. RandomRange - 1.
RandomRange == 1000
SuffixDraws == {s \in {0, 10} : s < RandomRange}

OrderNumberDropsTimestamp(ms, rnd) == <<"O", "R", "D">> \o Dec(rnd)

\* `ORD${Date.now()}${Math.floor(Math.random() * 1000)}`
OrderNumberOf(ms, rnd) == <<"O", "R", "D">> \o Dec(ms) \o Dec(rnd)

\* ------------------------------------------------------------------- state
VARIABLES
  orders,         \* order store: id -> order row
  drivers,        \* driver store: id -> driver row
  notifications,  \* notification store, in creation order
  now,            \* the server clock, in milliseconds
  reqs,           \* assign-driver requests: slot -> handler position and locals
  last,           \* the latest create / update / status request and its response
  nreq,           \* number of requests issued so far (the next one is nreq + 1)
  dash,           \* driver dashboards (client): driver -> local state and query results
  cart            \* the customer's cart page (client)

vars == <<orders, drivers, notifications, now, reqs, last, nreq, dash, cart>>

clientVars == <<dash, cart>>

IdleReq == [pc |-> "idle", orderId |-> 0, driverId |-> "", order |-> <<>>,
            driver |-> <<>>, code |-> 0, err |-> "", seq |-> 0]

NoResponse == [op |-> "none", id |-> 0, body |-> [none |-> TRUE],
               code |-> 0, err |-> "", orderNumber |-> <<>>, seq |-> 0]

\* The dashboard after login: useState defaults, then the mount effect sets
\* the local status from the stored driver record (available at seeding).
NewDashboard ==
  [driverStatus |-> "available", availableOrders |-> <<>>, myOrders |-> <<>>,
   accepting |-> 0]

\* The cart page on first render: empty cart and form, default fee 5.
EmptyCart ==
  [items |-> <<>>, customerName |-> "", customerPhone |-> "",
   deliveryAddress |-> "", location |-> <<>>, fee |-> 5, errors |-> {}]

Init ==
  /\ dash = [d \in KnownDrivers |-> NewDashboard]
  /\ cart = EmptyCart
  /\ orders = [o \in {} |-> 0]
  /\ drivers = [d \in KnownDrivers |-> [id |-> d, name |-> d, isAvailable |-> TRUE]]
  /\ notifications = <<>>
  /\ now = Epoch
  /\ reqs = [r \in Slots |-> IdleReq]
  /\ last = NoResponse
  /\ nreq = 0

\* ------------------------------------------------------------------- clock
Tick ==
  /\ now < Epoch + MaxTime
  /\ now' = now + 1
  /\ UNCHANGED <<orders, drivers, notifications, reqs, last, nreq>>
  /\ UNCHANGED clientVars

\* ------------------------------------------------------------------ stores
\* storage.createOrder: inserts the row under a fresh id, absent columns null.
StorageCreateOrder(data, id) ==
  [k \in OrderColumns |->
     IF k = "id" THEN id ELSE IF k \in DOMAIN data THEN data[k] ELSE Null]

\* storage.updateOrder: overwrites the supplied columns of an existing row.
StorageUpdateOrder(row, data) ==
  [k \in DOMAIN row |-> IF k \in DOMAIN data THEN data[k] ELSE row[k]]

\* storage.updateDriver: overwrites the supplied columns of an existing row.
StorageUpdateDriver(row, data) ==
  [k \in DOMAIN row |-> IF k \in DOMAIN data THEN data[k] ELSE row[k]]

\* randomUUID-style fresh identifier: the first unused one.
NewId == CHOOSE i \in OrderIds :
           i \notin DOMAIN orders /\ \A j \in 1 .. (i - 1) : j \in DOMAIN orders

Notification(type, message, recipientType, orderId, detail) ==
  [type |-> type, message |-> message, recipientType |-> recipientType,
   orderId |-> orderId, detail |-> detail, isRead |-> FALSE]

\* storage.createNotification inside try/catch: a failure is logged and dropped.
TryNotify(ok, n) == IF ok THEN Append(notifications, n) ELSE notifications

AfterNotificationFailureFatal(ok, code) == IF ok THEN code ELSE 500

\* catch (notificationError) { console.error(...) }: the handler goes on to
\* the response it was about to send.
AfterNotification(ok, code) == code

\* ---------------------------------------------------------- POST /api/orders
ClientOrderNumber == <<"O", "R", "D", "9">>

BaseBody == [customerName |-> "Ali", customerPhone |-> "773123456",
             deliveryAddress |-> "Sanaa, Street 10", subtotal |-> 50,
             deliveryFee |-> 5, total |-> 55]

CreateBodies ==
  { BaseBody,
    Merge(BaseBody, [status |-> "delivered", orderNumber |-> ClientOrderNumber]),
    [BaseBody EXCEPT !.total = 60],
    [BaseBody EXCEPT !.customerName = ""],
    [k \in (DOMAIN BaseBody) \ {"customerPhone"} |-> BaseBody[k]],
    [BaseBody EXCEPT !.deliveryAddress = ""] }

MissingRequiredIgnoresAddress(body) ==
  Falsy(body, "customerName") \/ Falsy(body, "customerPhone")

\* !customerName || !customerPhone || !deliveryAddress
MissingRequired(body) ==
  Falsy(body, "customerName") \/ Falsy(body, "customerPhone")
    \/ Falsy(body, "deliveryAddress")

NewOrderDataBodyWins(body, orderNumber, at) ==
  Merge([orderNumber |-> orderNumber, status |-> "pending",
         createdAt |-> at, updatedAt |-> at], body)

\* { ...orderData, orderNumber, status: "pending", createdAt, updatedAt }
NewOrderData(body, orderNumber, at) ==
  Merge(body, [orderNumber |-> orderNumber, status |-> "pending",
               createdAt |-> at, updatedAt |-> at])

PostOrderServe(body, rnd, notifOk) ==
  /\ nreq' = nreq + 1
  /\ IF MissingRequired(body)
     THEN /\ last' = [op |-> "post", id |-> 0, body |-> body, code |-> 400,
                      err |-> "missingFields", orderNumber |-> <<>>,
                      seq |-> nreq + 1]
          /\ UNCHANGED <<orders, notifications>>
     ELSE /\ Cardinality(DOMAIN orders) < MaxOrders
          /\ LET orderNumber == OrderNumberOf(now, rnd)
                 data        == NewOrderData(body, orderNumber, now)
                 newOrder    == StorageCreateOrder(data, NewId)
             IN  /\ orders' = [o \in (DOMAIN orders) \cup {NewId} |->
                                 IF o = NewId THEN newOrder ELSE orders[o]]
                 /\ notifications' =
                      TryNotify(notifOk,
                                Notification("new_order", "new order", "admin",
                                             newOrder.id, orderNumber))
                 /\ last' = [op |-> "post", id |-> newOrder.id, body |-> body,
                             code |-> AfterNotification(notifOk, 201), err |-> "", orderNumber |-> newOrder.orderNumber,
                      seq |-> nreq + 1]
  /\ UNCHANGED <<drivers, now, reqs>>

PostOrder(body, rnd, notifOk) ==
  /\ nreq < MaxRequests
  /\ PostOrderServe(body, rnd, notifOk)
  /\ UNCHANGED clientVars

\* -------------------------------------------------------- PUT /api/orders/:id
UpdateBodies ==
  {[status |-> s] : s \in StatusInputs}
    \cup {[driverId |-> Null], [total |-> 60], [updatedBy |-> "admin"]}

StatusMessages ==
  [confirmed |-> "your order is confirmed",
   preparing |-> "your order is being prepared",
   ready     |-> "your order is ready for pickup",
   picked_up |-> "your order was picked up from the restaurant",
   on_way    |-> "your order is on its way",
   delivered |-> "your order was delivered",
   cancelled |-> "your order was cancelled"]

FallbackMessage == "your order status was updated"

StatusMessageWithoutFallback(status) ==
  IF status \in DOMAIN StatusMessages THEN StatusMessages[status] ELSE Null

\* statusMessages[status] || fallback
StatusMessage(status) ==
  IF status \in DOMAIN StatusMessages THEN StatusMessages[status]
  ELSE FallbackMessage

UpdatePatchKeepsTimestamp(body, at) == body

UpdatePatchTimestampOnly(body, at) == [updatedAt |-> at]

\* { ...updateData, updatedAt: new Date() }
UpdatePatch(body, at) == Merge(body, [updatedAt |-> at])

PutOrderServe(id, body, notifOk) ==
  /\ nreq' = nreq + 1
  /\ IF id \notin DOMAIN orders
     THEN /\ last' = [op |-> "put", id |-> id, body |-> body, code |-> 404,
                      err |-> "orderNotFound", orderNumber |-> <<>>,
                      seq |-> nreq + 1]
          /\ UNCHANGED <<orders, notifications>>
     ELSE LET updatedOrder ==
                StorageUpdateOrder(orders[id], UpdatePatch(body, now))
          IN  /\ orders' = [orders EXCEPT ![id] = updatedOrder]
              /\ notifications' =
                   IF ~Falsy(body, "status")
                   THEN TryNotify(notifOk,
                                  Notification("order_update",
                                               StatusMessage(body.status),
                                               "customer", id, <<>>))
                   ELSE notifications
              /\ last' = [op |-> "put", id |-> id, body |-> body,
                          code |-> IF ~Falsy(body, "status")
                                   THEN AfterNotification(notifOk, 200)
                                   ELSE 200,
                          err |-> "", orderNumber |-> <<>>,
                      seq |-> nreq + 1]
  /\ UNCHANGED <<drivers, now, reqs>>

PutOrder(id, body, notifOk) ==
  /\ nreq < MaxRequests
  /\ PutOrderServe(id, body, notifOk)
  /\ UNCHANGED clientVars

\* ------------------------------------------------ PATCH /api/orders/:id/status
PatchBodies ==
  {[status |-> s] : s \in {"confirmed", "delivered", "bogus"}}
    \cup {[note |-> "x"]}

\* db.updateOrderStatus: sets the status and refreshes the update timestamp.
DbUpdateOrderStatus(row, status, at) ==
  [row EXCEPT !.status = status, !.updatedAt = at]

PatchStatus(id, body) ==
  /\ nreq < MaxRequests
  /\ nreq' = nreq + 1
  /\ IF Falsy(body, "status")
     THEN /\ last' = [op |-> "patch", id |-> id, body |-> body, code |-> 400,
                      err |-> "statusRequired", orderNumber |-> <<>>,
                      seq |-> nreq + 1]
          /\ UNCHANGED orders
     ELSE IF id \notin DOMAIN orders
     THEN /\ last' = [op |-> "patch", id |-> id, body |-> body, code |-> 404,
                      err |-> "orderNotFound", orderNumber |-> <<>>,
                      seq |-> nreq + 1]
          /\ UNCHANGED orders
     ELSE LET updatedOrder == DbUpdateOrderStatus(orders[id], body.status, now)
          IN  /\ orders' = [orders EXCEPT ![id] = updatedOrder]
              /\ last' = [op |-> "patch", id |-> id, body |-> body,
                          code |-> 200, err |-> "", orderNumber |-> <<>>,
                      seq |-> nreq + 1]
  /\ UNCHANGED <<drivers, notifications, now, reqs>>
  /\ UNCHANGED clientVars

\* ------------------------------------------ PUT /api/orders/:id/assign-driver
\* The handler position after each await: "getOrder", "getDriver",
\* "updateOrder", "updateDriver", "notify"; "done" once the response is sent.
\* The handler's locals go out of scope when it returns.
Respond(req, code, err) ==
  [req EXCEPT !.pc = "done", !.code = code, !.err = err,
              !.order = <<>>, !.driver = <<>>]

InFlight(r) == reqs[r].pc \notin {"idle", "done"}
NoneInFlight == \A r \in Slots : ~InFlight(r)

\* The request takes the first slot that holds no running handler.
FreeSlot(r) == ~InFlight(r) /\ \A q \in 1 .. (r - 1) : InFlight(q)

DriverIdMissingOnlyNull(driverId) == driverId = Null

\* !driverId
DriverIdMissing(driverId) == driverId \in {"", Null}

AssignBeginServe(r, id, driverId) ==
  /\ nreq' = nreq + 1
  /\ FreeSlot(r)
  /\ LET req == [IdleReq EXCEPT !.orderId = id, !.driverId = driverId,
                                !.seq = nreq + 1]
     IN  reqs' = [reqs EXCEPT ![r] =
                    IF DriverIdMissing(driverId)
                    THEN Respond(req, 400, "driverIdRequired")
                    ELSE [req EXCEPT !.pc = "getOrder"]]
  /\ UNCHANGED <<orders, drivers, notifications, now, last>>

AssignBegin(r, id, driverId) ==
  /\ nreq < MaxRequests
  /\ AssignBeginServe(r, id, driverId)
  /\ UNCHANGED clientVars

OrderCheckSkipsAssigned(order) ==
  IF order = <<>> THEN "orderNotFound" ELSE "ok"

\* if (!order) 404; if (order.driverId) 400
OrderCheck(order) ==
  IF order = <<>> THEN "orderNotFound"
  ELSE IF ~Falsy(order[1], "driverId") THEN "alreadyAssigned"
  ELSE "ok"

AssignGetOrder(r) ==
  /\ reqs[r].pc = "getOrder"
  /\ LET order == Lookup(orders, reqs[r].orderId)
         check == OrderCheck(order)
     IN  reqs' = [reqs EXCEPT ![r] =
                    IF check = "orderNotFound" THEN Respond(@, 404, check)
                    ELSE IF check = "alreadyAssigned" THEN Respond(@, 400, check)
                    ELSE [@ EXCEPT !.pc = "getDriver", !.order = order]]
  /\ UNCHANGED <<orders, drivers, notifications, now, last, nreq>>
  /\ UNCHANGED clientVars

AssignGetDriverAfterWrite(r) ==
  /\ reqs[r].pc = "getDriver"
  /\ LET driver == Lookup(drivers, reqs[r].driverId)
     IN  reqs' = [reqs EXCEPT ![r] =
                    IF driver = <<>> THEN Respond(@, 404, "driverNotFound")
                    ELSE [@ EXCEPT !.pc = "updateOrder", !.driver = driver]]
  /\ orders' = [o \in DOMAIN orders |->
                  IF o = reqs[r].orderId
                  THEN [orders[o] EXCEPT !.driverId = reqs[r].driverId]
                  ELSE orders[o]]
  /\ UNCHANGED <<drivers, notifications, now, last, nreq>>
  /\ UNCHANGED clientVars

AssignGetDriver(r) ==
  /\ reqs[r].pc = "getDriver"
  /\ LET driver == Lookup(drivers, reqs[r].driverId)
     IN  reqs' = [reqs EXCEPT ![r] =
                    IF driver = <<>> THEN Respond(@, 404, "driverNotFound")
                    ELSE [@ EXCEPT !.pc = "updateOrder", !.driver = driver]]
  /\ UNCHANGED <<orders, drivers, notifications, now, last, nreq>>
  /\ UNCHANGED clientVars

AssignPatchKeepsStatus(driverId, at) == [driverId |-> driverId, updatedAt |-> at]

\* { driverId, status: 'preparing', updatedAt: new Date() }
AssignPatch(driverId, at) ==
  [driverId |-> driverId, status |-> "preparing", updatedAt |-> at]

AssignUpdateOrder(r) ==
  /\ reqs[r].pc = "updateOrder"
  /\ LET id == reqs[r].orderId
     IN  IF id \notin DOMAIN orders
         THEN /\ reqs' = [reqs EXCEPT ![r] = Respond(@, 404, "updateFailed")]
              /\ UNCHANGED orders
         ELSE LET updatedOrder ==
                    StorageUpdateOrder(orders[id],
                                       AssignPatch(reqs[r].driverId, now))
              IN  /\ orders' = [orders EXCEPT ![id] = updatedOrder]
                  /\ reqs' = [reqs EXCEPT ![r] = [@ EXCEPT !.pc = "updateDriver"]]
  /\ UNCHANGED <<drivers, notifications, now, last, nreq>>
  /\ UNCHANGED clientVars

\* await storage.updateDriver(driverId, { isAvailable: false }); a rejection
\* reaches the outer catch, which answers 500.
AssignUpdateDriver(r, ok) ==
  /\ reqs[r].pc = "updateDriver"
  /\ IF ok
     THEN /\ drivers' = [drivers EXCEPT ![reqs[r].driverId] =
                           StorageUpdateDriver(@, [isAvailable |-> FALSE])]
          /\ reqs' = [reqs EXCEPT ![r] = [@ EXCEPT !.pc = "notify"]]
     ELSE /\ reqs' = [reqs EXCEPT ![r] = Respond(@, 500, "internal")]
          /\ UNCHANGED drivers
  /\ UNCHANGED <<orders, notifications, now, last, nreq>>
  /\ UNCHANGED clientVars

AssignNotify(r, notifOk) ==
  /\ reqs[r].pc = "notify"
  /\ notifications' =
       TryNotify(notifOk,
                 Notification("order_assigned", "a driver was assigned",
                              "customer", reqs[r].orderId,
                              <<reqs[r].driver[1].name>>))
  /\ reqs' = [reqs EXCEPT ![r] = Respond(@, AfterNotification(notifOk, 200), "")]
  /\ UNCHANGED <<orders, drivers, now, last, nreq>>
  /\ UNCHANGED clientVars

\* ------------------------------------------------------------ GET /api/orders
\* The query string: any of status, driverId, restaurantId, customerId.
NoQuery == [k \in {} |-> ""]

Queries ==
  { NoQuery,
    [status |-> "pending"], [status |-> "confirmed"], [status |-> "all"],
    [driverId |-> "d1"], [driverId |-> ""],
    [restaurantId |-> "r1"], [customerId |-> "c1"],
    [status |-> "pending", restaurantId |-> "r1"],
    [restaurantId |-> "r1", customerId |-> "c1"],
    [status |-> "all", driverId |-> "d1"] }

RECURSIVE Ascending(_)
Ascending(S) ==
  IF S = {} THEN <<>>
  ELSE LET m == CHOOSE x \in S : \A y \in S : x <= y
       IN  <<m>> \o Ascending(S \ {m})

\* storage.getOrders: every stored row, in the order of the ids.
StorageGetOrders ==
  LET ids == Ascending(DOMAIN orders)
  IN  [i \in 1 .. Len(ids) |-> orders[ids[i]]]

\* if (status && status !== 'all')
StatusSelected(query) == ~Falsy(query, "status") /\ query.status # "all"

\* if (driverId), if (restaurantId), if (customerId)
Selected(query, k) == ~Falsy(query, k)

PassesIgnoringDriver(order, query) ==
  /\ StatusSelected(query) => order.status = query.status
  /\ \A k \in {"restaurantId", "customerId"} :
       Selected(query, k) => order[k] = query[k]

\* The four chained orders.filter(...) calls keep a row that passes each one.
Passes(order, query) ==
  /\ StatusSelected(query) => order.status = query.status
  /\ \A k \in {"driverId", "restaurantId", "customerId"} :
       Selected(query, k) => order[k] = query[k]

CompareCreatedOldestFirst(a, b) == a.createdAt - b.createdAt

\* (a, b) => new Date(b.createdAt).getTime() - new Date(a.createdAt).getTime()
CompareCreated(a, b) == b.createdAt - a.createdAt

\* Array.prototype.sort is stable: a row goes behind every row that the
\* comparator does not place after it.
InsertSorted(sorted, row) ==
  LET k == Cardinality({i \in 1 .. Len(sorted) :
                          CompareCreated(sorted[i], row) <= 0})
  IN  SubSeq(sorted, 1, k) \o <<row>> \o SubSeq(sorted, k + 1, Len(sorted))

RECURSIVE SortOrders(_)
SortOrders(rows) ==
  IF rows = <<>> THEN <<>>
  ELSE InsertSorted(SortOrders(SubSeq(rows, 1, Len(rows) - 1)), rows[Len(rows)])

FilterOrders(rows, query) == SelectSeq(rows, LAMBDA row : Passes(row, query))

\* The read handlers answer with a payload next to the response fields.
ListOrders(query) ==
  /\ nreq < MaxRequests
  /\ nreq' = nreq + 1
  /\ last' = [op |-> "list", id |-> 0, body |-> query, code |-> 200,
              err |-> "", orderNumber |-> <<>>, seq |-> nreq + 1,
              list |-> SortOrders(FilterOrders(StorageGetOrders, query))]
  /\ UNCHANGED <<orders, drivers, notifications, now, reqs>>
  /\ UNCHANGED clientVars

\* -------------------------------------------------- GET /api/orders/:id/track
StatusSteps ==
  << [status |-> "pending",   message |-> "order received",        offset |-> 0],
     [status |-> "confirmed", message |-> "order confirmed",       offset |-> 5],
     [status |-> "preparing", message |-> "order being prepared",  offset |-> 10],
     [status |-> "ready",     message |-> "order ready",           offset |-> 20],
     [status |-> "picked_up", message |-> "order picked up",       offset |-> 25],
     [status |-> "on_way",    message |-> "order on its way",      offset |-> 30],
     [status |-> "delivered", message |-> "order delivered",       offset |-> 45] >>

\* statusSteps.findIndex(step => step.status === order.status): the first
\* position, counted from 0, or -1.
FindIndex(status) ==
  LET hits == {i \in DOMAIN StatusSteps : StatusSteps[i].status = status}
  IN  IF hits = {} THEN -1
      ELSE (CHOOSE i \in hits : \A j \in hits : i <= j) - 1

StepsShownExclusive(index) == IF index < 0 THEN 0 ELSE index

\* for (let i = 0; i <= currentStatusIndex; i++): the number of rounds.
StepsShown(index) == index + 1

BaseTimeIsNow(order) == now

\* new Date(order.createdAt)
BaseTime(order) == order.createdAt

StepTimestampInSeconds(base, offset) == base + offset * 1000

\* new Date(baseTime.getTime() + step.offset * 60000)
StepTimestamp(base, offset) == base + offset * 60000

\* i === 0 ? 'system' : i <= 2 ? 'restaurant' : 'driver'
CreatedByType(i) ==
  IF i = 0 THEN "system" ELSE IF i <= 2 THEN "restaurant" ELSE "driver"

TrackingOf(order) ==
  [j \in 1 .. StepsShown(FindIndex(order.status)) |->
     [id            |-> Dec(j),
      status        |-> StatusSteps[j].status,
      message       |-> StatusSteps[j].message,
      timestamp     |-> StepTimestamp(BaseTime(order), StatusSteps[j].offset),
      createdByType |-> CreatedByType(j - 1)]]

\* if (order.driverId) { driver = getDriver(...); if (driver) driverInfo = ... }
DriverInfo(order) ==
  IF ~Falsy(order, "driverId") /\ order.driverId \in DOMAIN drivers
  THEN <<[id |-> order.driverId, name |-> drivers[order.driverId].name]>>
  ELSE <<>>

TrackOrder(id) ==
  /\ nreq < MaxRequests
  /\ nreq' = nreq + 1
  /\ last' =
       IF id \notin DOMAIN orders
       THEN [op |-> "track", id |-> id, body |-> NoQuery, code |-> 404,
             err |-> "orderNotFound", orderNumber |-> <<>>, seq |-> nreq + 1]
       ELSE [op |-> "track", id |-> id, body |-> NoQuery, code |-> 200,
             err |-> "", orderNumber |-> <<>>, seq |-> nreq + 1,
             order |-> orders[id], tracking |-> TrackingOf(orders[id]),
             driver |-> DriverInfo(orders[id])]
  /\ UNCHANGED <<orders, drivers, notifications, now, reqs>>
  /\ UNCHANGED clientVars

\* ------------------------------------------- customer tracking page (client)
\* statusMap of getStatusProgress: no entry for "ready" and "picked_up".
ProgressMap ==
  [pending |-> 25, confirmed |-> 40, preparing |-> 60, on_way |-> 80,
   delivered |-> 100, cancelled |-> 0]

\* statusMap[status] || 0
GetStatusProgress(status) ==
  IF status \in DOMAIN ProgressMap THEN ProgressMap[status] ELSE 0

\* ---------------------------------------------------- driver dashboard (client)
\* The dashboards and the cart send their requests on a budget of their own,
\* on top of the requests of other clients.
ClientBudget == nreq < MaxRequests + MaxClientRequests

\* What GET /api/orders answers for a query.
OrdersListed(query) == SortOrders(FilterOrders(StorageGetOrders, query))

\* availableOrders query: GET /api/orders?status=confirmed, then the rows
\* without a driver; a failed request gives [].  Enabled, and refetched,
\* only while the local status is 'available'.
AvailableFetched(ok) ==
  IF ok
  THEN SelectSeq(OrdersListed([status |-> "confirmed"]),
                 LAMBDA order : Falsy(order, "driverId"))
  ELSE <<>>

DashPollAvailable(d, ok) ==
  /\ dash[d].driverStatus = "available"
  /\ dash' = [dash EXCEPT ![d].availableOrders = AvailableFetched(ok)]
  /\ UNCHANGED <<orders, drivers, notifications, now, reqs, last, nreq, cart>>

\* myOrders query: GET /api/orders?driverId=<id>; a failed request gives [].
MineFetched(d, ok) == IF ok THEN OrdersListed([driverId |-> d]) ELSE <<>>

DashPollMine(d, ok) ==
  /\ dash' = [dash EXCEPT ![d].myOrders = MineFetched(d, ok)]
  /\ UNCHANGED <<orders, drivers, notifications, now, reqs, last, nreq, cart>>

StatusFlow ==
  [confirmed |-> "preparing", preparing |-> "ready", ready |-> "picked_up",
   picked_up |-> "on_way", on_way |-> "delivered"]

GetNextStatusSkipsPickup(status) ==
  IF status = "ready" THEN <<"on_way">>
  ELSE IF status \in DOMAIN StatusFlow THEN <<StatusFlow[status]>> ELSE <<>>

\* statusFlow[currentStatus]: the successor, or undefined.
GetNextStatus(status) ==
  IF status \in DOMAIN StatusFlow THEN <<StatusFlow[status]>> ELSE <<>>

\* categorizeOrders([...availableOrders, ...myOrders])
CategorizeOrders(d) ==
  LET allOrders == dash[d].availableOrders \o dash[d].myOrders
  IN  [available  |-> SelectSeq(allOrders, LAMBDA order :
                        order.status = "confirmed" /\ Falsy(order, "driverId")),
       accepted   |-> SelectSeq(allOrders, LAMBDA order :
                        order.driverId = d /\ order.status \in {"preparing", "ready"}),
       inProgress |-> SelectSeq(allOrders, LAMBDA order :
                        order.driverId = d /\ order.status \in {"picked_up", "on_way"}),
       completed  |-> SelectSeq(allOrders, LAMBDA order :
                        order.driverId = d /\ order.status = "delivered")]

IdsOf(rows) == {rows[i].id : i \in 1 .. Len(rows)}

\* The row of order o in a tab (the first one, if the tab lists it twice).
RowOf(rows, o) == rows[CHOOSE i \in 1 .. Len(rows) :
                          rows[i].id = o /\ \A j \in 1 .. (i - 1) : rows[j].id # o]

\* The advance button of an OrderCard: rendered in the accepted and the
\* in-progress tab, when the shown status has a successor.
AdvanceOffered(d, o) ==
  LET tabs  == CategorizeOrders(d)
      shown == tabs.accepted \o tabs.inProgress
  IN  o \in IdsOf(shown) /\ GetNextStatus(RowOf(shown, o).status) # <<>>

\* acceptOrderMutation.mutate(order.id) from a card of the available tab:
\* PUT /api/orders/:id/assign-driver { driverId: currentDriver.id }.
DashAccept(d, o) ==
  /\ ClientBudget
  /\ dash[d].accepting = 0
  /\ o \in IdsOf(CategorizeOrders(d).available)
  /\ \E r \in Slots :
       /\ \A e \in DOMAIN dash : dash[e].accepting # r
       /\ AssignBeginServe(r, o, d)
       /\ dash' = [dash EXCEPT ![d].accepting = r]
  /\ UNCHANGED cart

\* queryClient.invalidateQueries({ queryKey: ['/api/orders'] }): both order
\* queries carry that key prefix; the ones enabled at the call are fetched
\* again (the available one only while the local status is 'available'),
\* here served at once, each either answered or failed.
InvalidateOrders(d, view, available, mine, okA, okM) ==
  [view EXCEPT !.myOrders = mine[okM],
               !.availableOrders =
                  IF dash[d].driverStatus = "available" THEN available[okA]
                  ELSE @]

\* acceptOrderMutation.onSuccess / onError, once the response has arrived.
DashAcceptDone(d, okA, okM) ==
  /\ dash[d].accepting # 0
  /\ reqs[dash[d].accepting].pc = "done"
  /\ dash' = [dash EXCEPT ![d] =
       IF reqs[dash[d].accepting].code = 200
       THEN [InvalidateOrders(d, @, [ok \in BOOLEAN |-> AvailableFetched(ok)],
                              [ok \in BOOLEAN |-> MineFetched(d, ok)], okA, okM)
               EXCEPT !.accepting = 0, !.driverStatus = "busy"]
       ELSE [@ EXCEPT !.accepting = 0]]
  /\ UNCHANGED <<orders, drivers, notifications, now, reqs, last, nreq, cart>>

\* updateOrderStatusMutation.mutate({ orderId, status: getNextStatus(status) })
\* with the status of the card, then onSuccess.
DashAdvance(d, o, notifOk, okA, okM) ==
  /\ ClientBudget
  /\ AdvanceOffered(d, o)
  /\ LET tabs   == CategorizeOrders(d)
         status == RowOf(tabs.accepted \o tabs.inProgress, o).status
         next   == GetNextStatus(status)[1]
     IN  /\ PutOrderServe(o, [status |-> next, updatedBy |-> d,
                              updatedByType |-> "driver"], notifOk)
         /\ dash' = [dash EXCEPT ![d] =
              IF last'.code = 200
              THEN [InvalidateOrders(d, @,
                       [ok \in BOOLEAN |-> AvailableFetched(ok)'],
                       [ok \in BOOLEAN |-> MineFetched(d, ok)'], okA, okM)
                      EXCEPT !.driverStatus =
                        IF next = "delivered" THEN "available" ELSE @]
              ELSE @]
  /\ UNCHANGED cart

\* The availability switch: checked shows 'available'; a click sends the
\* opposite value with PUT /api/drivers/:id { isAvailable }, then onSuccess.
DashToggle(d) ==
  /\ ClientBudget
  /\ nreq' = nreq + 1
  /\ LET isAvailable == dash[d].driverStatus # "available"
     IN  /\ drivers' = [drivers EXCEPT ![d] =
                          StorageUpdateDriver(@, [isAvailable |-> isAvailable])]
         /\ dash' = [dash EXCEPT ![d].driverStatus =
                       IF isAvailable THEN "available" ELSE "offline"]
         /\ last' = [op |-> "putDriver", id |-> 0,
                     body |-> [isAvailable |-> isAvailable], code |-> 200,
                     err |-> "", orderNumber |-> <<>>, seq |-> nreq + 1]
  /\ UNCHANGED <<orders, notifications, now, reqs, cart>>

\* --------------------------------------------------------- cart page (client)
\* The texts the customer may type or pick, and their characters.
NameInputs == {" ", "A", "Ali", "Al1"}
PhoneInputs == {"773 123 456", "873123456"}
AddressInputs == {"Sanaa", "Sanaa, Street 10"}

Chars ==
  ("" :> <<>>) @@
  (" " :> <<" ">>) @@
  ("A" :> <<"A">>) @@
  ("Ali" :> <<"A", "l", "i">>) @@
  ("Al1" :> <<"A", "l", "1">>) @@
  ("773 123 456" :> <<"7", "7", "3", " ", "1", "2", "3", " ", "4", "5", "6">>) @@
  ("873123456" :> <<"8", "7", "3", "1", "2", "3", "4", "5", "6">>) @@
  ("Sanaa" :> <<"S", "a", "n", "a", "a">>) @@
  ("Sanaa, Street 10" :> <<"S", "a", "n", "a", "a", ",", " ", "S", "t", "r", "e", "e", "t", " ", "1", "0">>)

Digits == {"0", "1", "2", "3", "4", "5", "6", "7", "8", "9"}
Letters == {"A", "S", "a", "e", "i", "l", "n", "r", "t"}
Whitespace == {" "}

\* String.prototype.trim
RECURSIVE Trim(_)
Trim(t) ==
  IF t = <<>> THEN t
  ELSE IF Head(t) \in Whitespace THEN Trim(Tail(t))
  ELSE IF t[Len(t)] \in Whitespace THEN Trim(SubSeq(t, 1, Len(t) - 1))
  ELSE t

\* replace(/\s/g, '')
RemoveWhitespace(t) == SelectSeq(t, LAMBDA c : c \notin Whitespace)

AllDigits(t) == \A i \in 1 .. Len(t) : t[i] \in Digits

\* /^[a-zA-Z\s]+$/ (with the Arabic letters)
NameMatches(t) ==
  t # <<>> /\ \A i \in 1 .. Len(t) : t[i] \in Letters \cup Whitespace

\* /^(7[0-9]{8}|00967[7][0-9]{8}|\+967[7][0-9]{8})$/
PhoneMatches(t) ==
  \/ Len(t) = 9 /\ t[1] = "7" /\ AllDigits(t)
  \/ /\ Len(t) = 14
     /\ SubSeq(t, 1, 6) = <<"0", "0", "9", "6", "7", "7">>
     /\ AllDigits(t)
  \/ /\ Len(t) = 13
     /\ SubSeq(t, 1, 5) = <<"+", "9", "6", "7", "7">>
     /\ AllDigits(SubSeq(t, 6, 13))

\* validateForm(): the fields with an error.
ValidateForm(c) ==
  LET name    == Chars[c.customerName]
      phone   == Chars[c.customerPhone]
      address == Chars[c.deliveryAddress]
  IN  {f \in {"customerName"} :
         \/ Trim(name) = <<>>
         \/ Len(Trim(name)) < 2
         \/ ~NameMatches(name)}
      \cup {f \in {"customerPhone"} :
         \/ Trim(phone) = <<>>
         \/ ~PhoneMatches(RemoveWhitespace(phone))}
      \cup {f \in {"deliveryAddress"} :
         \/ Trim(address) = <<>>
         \/ Len(Trim(address)) < 10}

\* Coordinates in units of 0.0001 degree; distances in metres.
RestaurantLat == 153694
RestaurantLng == 441910
EarthRadiusKm == 6371
DeliveryFeePerKm == 2
MinimumFee == 3

\* The places the LocationPicker may return: the restaurant itself and points
\* north and south of it on its meridian.
LocationInputs ==
  { [lat |-> 153694, lng |-> 441910, address |-> "Sanaa"],
    [lat |-> 153784, lng |-> 441910, address |-> "Sanaa, Street 10"],
    [lat |-> 154036, lng |-> 441910, address |-> "Sanaa, Street 10"],
    [lat |-> 153244, lng |-> 441910, address |-> "Sanaa, Street 10"],
    [lat |-> 153874, lng |-> 441910, address |-> "Sanaa"],
    [lat |-> 153491, lng |-> 441910, address |-> "Sanaa, Street 10"],
    [lat |-> 154594, lng |-> 441910, address |-> "Sanaa, Street 10"] }

Abs(n) == IF n < 0 THEN 0 - n ELSE n

Max(a, b) == IF a >= b THEN a ELSE b

\* calculateDistance for two points of equal longitude, where the haversine
\* term of dLng vanishes and the result is R * |dLat| * pi / 180; pi is taken
\* as 355 / 113 and the result is in whole metres.
CalculateDistance(lat1, lng1, lat2, lng2) ==
  (Abs(lat2 - lat1) * EarthRadiusKm * 355) \div (113 * 1800)

\* Math.round of thousandths / 1000: halves round up.
Round(thousandths) == (thousandths + 500) \div 1000

DeliveryFeeRoundsDown(distance) ==
  Max(MinimumFee, (distance * DeliveryFeePerKm) \div 1000)

\* Math.max(3, Math.round(distance * deliveryFeePerKm)), distance in metres.
DeliveryFee(distance) == Max(MinimumFee, Round(distance * DeliveryFeePerKm))

FeeFor(location) ==
  DeliveryFee(CalculateDistance(RestaurantLat, RestaurantLng,
                                location.lat, location.lng))

\* The dishes the customer may put into the cart.
Menu ==
  { [id |-> "meal", restaurantId |-> "r1", price |-> 50],
    [id |-> "drink", restaurantId |-> "r1", price |-> 10] }

RECURSIVE Subtotal(_)
Subtotal(items) ==
  IF items = <<>> THEN 0 ELSE Head(items).price + Subtotal(Tail(items))

\* The effect on [orderForm.locationData, items.length]: with a location and
\* a non-empty cart the fee is computed again.
FeeEffect(c) ==
  IF c.location # <<>> /\ c.items # <<>>
  THEN [c EXCEPT !.fee = FeeFor(c.location[1])]
  ELSE c

CartOnly == UNCHANGED <<orders, drivers, notifications, now, reqs, last, nreq, dash>>

\* addItem of the cart context, then the effect.
CartAddItem(item) ==
  /\ \A i \in 1 .. Len(cart.items) : cart.items[i].id # item.id
  /\ cart' = FeeEffect([cart EXCEPT !.items = Append(@, item)])
  /\ CartOnly

\* removeItem(id), then the effect.
CartRemoveItem(id) ==
  /\ \E i \in 1 .. Len(cart.items) : cart.items[i].id = id
  /\ cart' = FeeEffect([cart EXCEPT !.items =
                          SelectSeq(@, LAMBDA item : item.id # id)])
  /\ CartOnly

\* The customer types into a field of the form: onChange stores the text and
\* blanks the error shown for the field.
CartFill(field, text) ==
  /\ cart' = [cart EXCEPT ![field] = text, !.errors = @ \ {field}]
  /\ CartOnly

\* handleLocationSelect(location), then the effect.
CartSelectLocation(location) ==
  /\ cart' = FeeEffect(
       [[cart EXCEPT !.deliveryAddress = location.address,
                     !.location = <<location>>]
          EXCEPT !.fee = IF cart.items # <<>> THEN FeeFor(location) ELSE @])
  /\ CartOnly

\* orderData of handlePlaceOrder.
OrderData(c) ==
  [customerName |-> c.customerName, customerPhone |-> c.customerPhone,
   deliveryAddress |-> c.deliveryAddress, locationData |-> c.location,
   items |-> c.items, subtotal |-> Subtotal(c.items), deliveryFee |-> c.fee,
   total |-> Subtotal(c.items) + c.fee,
   totalAmount |-> Subtotal(c.items) + c.fee,
   restaurantId |-> c.items[1].restaurantId, status |-> "pending",
   orderNumber |-> ClientOrderNumber]

AfterPlaceOrderAlwaysClears(c, code) == EmptyCart

\* placeOrderMutation: onSuccess clears the cart and leaves the page, whose
\* form state is dropped with it; onError only shows a toast.
AfterPlaceOrder(c, code) == IF code \in 200 .. 299 THEN EmptyCart ELSE c

\* handlePlaceOrder goes on to the request: no validation error and at
\* least one item.
SendsOrder(c) == ValidateForm(c) = {} /\ c.items # <<>>

\* handlePlaceOrder with the mutation.  A request that is not served fails
\* (no connection, or the handler's catch answering 500) without a write.
CartPlaceOrder(served) ==
  /\ IF ~SendsOrder(cart)
     THEN /\ cart' = [cart EXCEPT !.errors = ValidateForm(cart)]
          /\ UNCHANGED <<orders, drivers, notifications, now, reqs, last, nreq>>
     ELSE /\ nreq < MaxRequests
          /\ IF served
             THEN PostOrderServe(OrderData(cart), 0, TRUE)
             ELSE /\ nreq' = nreq + 1
                  /\ last' = [op |-> "post", id |-> 0, body |-> OrderData(cart),
                              code |-> 500, err |-> "internal",
                              orderNumber |-> <<>>, seq |-> nreq + 1]
                  /\ UNCHANGED <<orders, drivers, notifications, now, reqs>>
          /\ cart' = AfterPlaceOrder([cart EXCEPT !.errors = {}], last'.code)
  /\ UNCHANGED dash

\* ----------------------------------------------------------- specifications
\* Every body is tried on a stored order; an unknown id is tried with one
\* body that carries a status and one that does not.
UpdateBodiesFor(id) ==
  IF id \in DOMAIN orders THEN UpdateBodies
  ELSE {[status |-> "confirmed"], [updatedBy |-> "admin"]}

PatchBodiesFor(id) ==
  IF id \in DOMAIN orders THEN PatchBodies
  ELSE {[status |-> "confirmed"], [note |-> "x"]}

CreateInputs ==
  {<<body, 0, TRUE>> : body \in CreateBodies}
    \cup {<<BaseBody, rnd, TRUE>> : rnd \in SuffixDraws}
    \cup {<<BaseBody, 0, FALSE>>}

UpdateInputsFor(id) ==
  {<<body, TRUE>> : body \in UpdateBodiesFor(id)}
    \cup {<<[status |-> "confirmed"], FALSE>>}

AssignInputsFor(id) ==
  IF id \in DOMAIN orders THEN DriverInputs ELSE {"", "d1"}

CreateRequest == \E in \in CreateInputs : PostOrder(in[1], in[2], in[3])

UpdateRequest ==
  \E id \in OrderIds : \E in \in UpdateInputsFor(id) : PutOrder(id, in[1], in[2])

PatchRequest ==
  \E id \in OrderIds : \E body \in PatchBodiesFor(id) : PatchStatus(id, body)

AssignRequest ==
  \E r \in Slots, id \in OrderIds : \E driverId \in AssignInputsFor(id) :
    AssignBegin(r, id, driverId)

ListRequest == \E query \in Queries : ListOrders(query)

TrackRequest == \E id \in OrderIds : TrackOrder(id)

Request ==
  \/ CreateRequest \/ UpdateRequest \/ PatchRequest \/ AssignRequest
  \/ ListRequest \/ TrackRequest

AssignStep ==
  \/ \E r \in Slots : AssignGetOrder(r)
  \/ \E r \in Slots : AssignGetDriver(r)
  \/ \E r \in Slots : AssignUpdateOrder(r)
  \/ \E r \in Slots, ok \in BOOLEAN : AssignUpdateDriver(r, ok)
  \/ \E r \in Slots, notifOk \in BOOLEAN : AssignNotify(r, notifOk)

\* The whole router: requests are served concurrently, and the awaits of
\* assign-driver interleave with every other request.
Next == Tick \/ Request \/ AssignStep

Spec == Init /\ [][Next]_vars

\* The assignment flow: orders are created by checkout, moved to any status
\* or unassigned again by PUT /:id, and claimed by assign-driver requests.
AssignFlowUpdates == {[status |-> s] : s \in StatusInputs} \cup {[driverId |-> Null]}

AssignFlowRequest ==
  \/ PostOrder(BaseBody, 0, TRUE)
  \/ \E id \in DOMAIN orders, body \in AssignFlowUpdates : PutOrder(id, body, TRUE)
  \/ AssignRequest

\* ... with the assign-driver handlers interleaving,
NextAssign == AssignFlowRequest \/ AssignStep

SpecAssign == Init /\ [][NextAssign]_vars

\* ... and with requests served one after another: a request is accepted only
\* when no handler is running.
NextSeq == (NoneInFlight /\ (Tick \/ AssignFlowRequest)) \/ AssignStep

SpecSeq == Init /\ [][NextSeq]_vars

\* Order creation and the single-step updates, without assign-driver.
NextCreate == Tick \/ CreateRequest \/ UpdateRequest \/ PatchRequest

SpecCreate == Init /\ [][NextCreate]_vars

\* Listing: orders of two restaurants, with and without a customer account,
\* are created, confirmed or given a driver, and listed under every query.
ListBodies ==
  { Merge(BaseBody, [restaurantId |-> "r1", customerId |-> "c1"]),
    Merge(BaseBody, [restaurantId |-> "r2", customerId |-> "c1"]),
    Merge(BaseBody, [restaurantId |-> "r1"]) }

ListUpdates == {[status |-> "confirmed"], [driverId |-> "d1"]}

NextList ==
  \/ Tick
  \/ \E body \in ListBodies : PostOrder(body, 0, TRUE)
  \/ \E id \in DOMAIN orders, body \in ListUpdates : PutOrder(id, body, TRUE)
  \/ ListRequest

SpecList == Init /\ [][NextList]_vars

\* Every handler with an input it accepts and an input it rejects, the
\* notification store failing or not, and the assign-driver handlers
\* interleaving with the other requests.
ResponseBodies == {BaseBody, [BaseBody EXCEPT !.customerName = ""]}

ResponseRequest ==
  \/ \E body \in ResponseBodies, ok \in BOOLEAN : PostOrder(body, 0, ok)
  \/ \E id \in OrderIds, ok \in BOOLEAN : PutOrder(id, [status |-> "confirmed"], ok)
  \/ \E id \in OrderIds, body \in {[status |-> "delivered"], [note |-> "x"]} :
       PatchStatus(id, body)
  \/ AssignRequest

NextResponses == ResponseRequest \/ AssignStep

SpecResponses == Init /\ [][NextResponses]_vars

\* Tracking: an order is created, moved to any status by PUT /:id or
\* PATCH /:id/status, and tracked, while the clock runs.
NextTrack ==
  \/ Tick
  \/ PostOrder(BaseBody, 0, TRUE)
  \/ \E id \in DOMAIN orders, s \in StatusInputs : PutOrder(id, [status |-> s], TRUE)
  \/ \E id \in DOMAIN orders : PatchStatus(id, [status |-> "confirmed"])
  \/ TrackRequest

SpecTrack == Init /\ [][NextTrack]_vars

\* Cancellation: an order is created, given any status (and a driver, by
\* assign-driver or by the update itself) and updated again.
CancelFlowUpdates ==
  {[status |-> s] : s \in Statuses}
    \cup {[status |-> s, driverId |-> "d1"] : s \in Statuses}

CancelFlowRequest ==
  \/ PostOrder(BaseBody, 0, TRUE)
  \/ \E id \in DOMAIN orders, body \in CancelFlowUpdates : PutOrder(id, body, TRUE)
  \/ \E r \in Slots, id \in DOMAIN orders : AssignBegin(r, id, "d1")

NextCancel == CancelFlowRequest \/ AssignStep

SpecCancel == Init /\ [][NextCancel]_vars

\* The dashboard of one driver: orders are created by customers and
\* confirmed by the restaurant, the driver's dashboard polls, accepts,
\* advances and toggles availability.
ActiveDashboards == {"d1"}

\* The restaurant confirms a pending order.
ConfirmOrder ==
  \E id \in DOMAIN orders :
    /\ orders[id].status = "pending"
    /\ ClientBudget
    /\ PutOrderServe(id, [status |-> "confirmed"], TRUE)
    /\ UNCHANGED clientVars

\* An update by the restaurant or an administrator that moves an order to a
\* later status of the sequence.
ForwardUpdate ==
  \E id \in DOMAIN orders, k \in DOMAIN StatusSteps :
    /\ \A j \in DOMAIN StatusSteps :
         StatusSteps[j].status = orders[id].status => j < k
    /\ \E j \in DOMAIN StatusSteps : StatusSteps[j].status = orders[id].status
    /\ ClientBudget
    /\ PutOrderServe(id, [status |-> StatusSteps[k].status], TRUE)
    /\ UNCHANGED clientVars

\* The awaits of assign-driver when the storage and the notification succeed.
AssignStepOk ==
  \/ \E r \in Slots : AssignGetOrder(r)
  \/ \E r \in Slots : AssignGetDriver(r)
  \/ \E r \in Slots : AssignUpdateOrder(r)
  \/ \E r \in Slots : AssignUpdateDriver(r, TRUE)
  \/ \E r \in Slots : AssignNotify(r, TRUE)

DashPoll ==
  \/ \E d \in ActiveDashboards, ok \in BOOLEAN : DashPollAvailable(d, ok)
  \/ \E d \in ActiveDashboards, ok \in BOOLEAN : DashPollMine(d, ok)

DashAct ==
  \/ \E d \in ActiveDashboards, o \in OrderIds : DashAccept(d, o)
  \/ \E d \in ActiveDashboards, okA \in BOOLEAN, okM \in BOOLEAN :
       DashAcceptDone(d, okA, okM)
  \/ \E d \in ActiveDashboards, o \in OrderIds, okA \in BOOLEAN, okM \in BOOLEAN :
       DashAdvance(d, o, TRUE, okA, okM)

NextDash ==
  \/ PostOrder(BaseBody, 0, TRUE)
  \/ ConfirmOrder
  \/ DashPoll
  \/ DashAct
  \/ \E d \in ActiveDashboards : DashToggle(d)
  \/ AssignStepOk

SpecDash == Init /\ [][NextDash]_vars

\* The same without the availability switch: the driver only polls, accepts
\* and advances.
NextAccept ==
  PostOrder(BaseBody, 0, TRUE) \/ ConfirmOrder \/ DashPoll \/ DashAct \/ AssignStepOk

SpecAccept == Init /\ [][NextAccept]_vars

\* One order, moved forward both by the driver's dashboard and by the
\* restaurant or an administrator.
CreateFirstOrder == orders = <<>> /\ PostOrder(BaseBody, 0, TRUE)

NextRace == CreateFirstOrder \/ ForwardUpdate \/ DashPoll \/ DashAct \/ AssignStepOk

SpecRace == Init /\ [][NextRace]_vars

\* One order taken through the dashboard as time passes: created, confirmed,
\* accepted and advanced by the driver only.
NextAdvance ==
  Tick \/ CreateFirstOrder \/ ConfirmOrder \/ DashPoll \/ DashAct \/ AssignStepOk

SpecAdvance == Init /\ [][NextAdvance]_vars

\* The cart page of one customer who types the address: dishes, the form
\* and the order button.
NextCart ==
  \/ \E item \in Menu : CartAddItem(item)
  \/ \E item \in Menu : CartRemoveItem(item.id)
  \/ \E text \in NameInputs : CartFill("customerName", text)
  \/ \E text \in PhoneInputs : CartFill("customerPhone", text)
  \/ \E text \in AddressInputs : CartFill("deliveryAddress", text)
  \/ \E served \in BOOLEAN : CartPlaceOrder(served)

SpecCart == Init /\ [][NextCart]_vars

\* The delivery fee on the cart page: dishes and the location picker.
NextFee ==
  \/ \E item \in Menu : CartAddItem(item)
  \/ \E item \in Menu : CartRemoveItem(item.id)
  \/ \E text \in AddressInputs : CartFill("deliveryAddress", text)
  \/ \E location \in LocationInputs : CartSelectLocation(location)

SpecFee == Init /\ [][NextFee]_vars

\* ------------------------------------------------------------------- claims
\* Vocabulary of the claims, stated on the stored rows and on the responses.
HasDriver(row) == row.driverId \notin {"", Null}

Finished(r) == reqs[r].pc = "done"

\* The step in which slot r accepts a new assign-driver request.
BeginStep(r) == nreq' = nreq + 1 /\ reqs'[r].seq = nreq'

\* The step in which the handler in slot r sends its response.
FinishStep(r) == InFlight(r) /\ reqs'[r].pc = "done"

\* The step that serves a create / update / status request.
ServedStep(op) == nreq' = nreq + 1 /\ last'.seq = nreq' /\ last'.op = op

Answered(req, code, err) == req.pc = "done" /\ req.code = code /\ req.err = err

\* C1: two assign-driver requests for the same order with different (existing)
\* drivers, both in the handler at the same time and neither hit by a store
\* failure: if one is answered 200 the other is answered 400 "already
\* assigned", the order carries the winner's driver, and the winner's driver,
\* and only the winner's driver, is unavailable.
C1_AssignmentExclusive ==
  \A r1, r2 \in Slots :
    ( /\ r1 # r2
      /\ Finished(r1) /\ Finished(r2)
      /\ reqs[r1].orderId = reqs[r2].orderId
      /\ reqs[r1].driverId \in KnownDrivers
      /\ reqs[r2].driverId \in KnownDrivers
      /\ reqs[r1].driverId # reqs[r2].driverId
      /\ reqs[r1].code = 200
      /\ reqs[r2].code # 500 )
    => /\ Answered(reqs[r2], 400, "alreadyAssigned")
       /\ orders[reqs[r1].orderId].driverId = reqs[r1].driverId
       /\ ~drivers[reqs[r1].driverId].isAvailable
       /\ drivers[reqs[r2].driverId].isAvailable

\* C2: with requests served one after another, every assign-driver handler
\* that reads an order which already has a driver answers 400 "already
\* assigned", whatever driver id it carries, and no step of an assign-driver
\* handler changes the driver of an order that has one.
C2_WriteOnceSequential ==
  [][\A r \in Slots :
       reqs'[r] # reqs[r] =>
         /\ \A o \in DOMAIN orders :
              HasDriver(orders[o]) =>
                o \in DOMAIN orders' /\ orders'[o].driverId = orders[o].driverId
         /\ ( /\ reqs[r].pc = "getOrder"
              /\ reqs[r].orderId \in DOMAIN orders
              /\ HasDriver(orders[reqs[r].orderId]) )
            => Answered(reqs'[r], 400, "alreadyAssigned")]_vars

C2_Witness ==
  \E r \in Slots :
    /\ Answered(reqs[r], 400, "alreadyAssigned")
    /\ reqs[r].driverId = "d2"
    /\ orders[reqs[r].orderId].driverId = "d1"

\* C3: assign-driver checks in the order driverId present, order exists, order
\* unassigned, driver exists, and answers with the first check that fails:
\* 400, 404, 400 "already assigned", 404.  An already-assigned order is
\* answered 400 even when the driver does not exist.
C3_PreconditionOrder ==
  [][\A r \in Slots :
       LET q == reqs[r]
           p == reqs'[r]
       IN  /\ BeginStep(r) =>
                IF p.driverId \in {"", Null}
                THEN Answered(p, 400, "driverIdRequired")
                ELSE p.pc = "getOrder"
           /\ (q.pc = "getOrder" /\ p # q) =>
                IF q.orderId \notin DOMAIN orders
                THEN Answered(p, 404, "orderNotFound")
                ELSE IF HasDriver(orders[q.orderId])
                THEN Answered(p, 400, "alreadyAssigned")
                ELSE p.pc = "getDriver"
           /\ (q.pc = "getDriver" /\ p # q) =>
                IF q.driverId \notin DOMAIN drivers
                THEN Answered(p, 404, "driverNotFound")
                ELSE p.pc = "updateOrder"
           /\ (q.pc \in {"updateOrder", "updateDriver", "notify"} /\ p # q) =>
                p.err \notin {"driverIdRequired", "orderNotFound",
                              "alreadyAssigned", "driverNotFound"}]_vars

C3_Witness ==
  \E r \in Slots :
    /\ Answered(reqs[r], 400, "alreadyAssigned")
    /\ reqs[r].driverId \notin DOMAIN drivers
    /\ HasDriver(orders[reqs[r].orderId])

\* C4: the order write of assign-driver sets driverId to the request's driver
\* and status to "preparing" whatever the status was, and changes no other
\* order and no driver; the driver write sets that driver's isAvailable to
\* false and changes no other driver and no order; a request is answered 200
\* only after both writes, and its last step changes neither store.
C4_AssignEffect ==
  [][\A r \in Slots :
       LET q == reqs[r]
           p == reqs'[r]
       IN  /\ (q.pc = "updateOrder" /\ p.pc = "updateDriver") =>
                /\ orders'[q.orderId].driverId = q.driverId
                /\ orders'[q.orderId].status = "preparing"
                /\ \A o \in DOMAIN orders : o # q.orderId => orders'[o] = orders[o]
                /\ DOMAIN orders' = DOMAIN orders
                /\ drivers' = drivers
           /\ (q.pc = "updateDriver" /\ p.pc = "notify") =>
                /\ ~drivers'[q.driverId].isAvailable
                /\ \A d \in DOMAIN drivers : d # q.driverId => drivers'[d] = drivers[d]
                /\ DOMAIN drivers' = DOMAIN drivers
                /\ orders' = orders
           /\ (p # q /\ p.code = 200) =>
                /\ q.pc = "notify"
                /\ orders' = orders /\ drivers' = drivers
           /\ (p # q /\ p.pc = "notify") => q.pc = "updateDriver"
           /\ (p # q /\ p.pc = "updateDriver") => q.pc = "updateOrder"]_vars

\* An order read as delivered and unassigned has been moved to "preparing".
C4_Witness ==
  \E r \in Slots :
    /\ reqs[r].pc = "notify"
    /\ reqs[r].order[1].status = "delivered"
    /\ orders[reqs[r].orderId].status = "preparing"
    /\ orders[reqs[r].orderId].driverId = reqs[r].driverId
    /\ ~drivers[reqs[r].driverId].isAvailable
    /\ \E d \in DOMAIN drivers : d # reqs[r].driverId /\ drivers[d].isAvailable

\* C5: when an assign-driver handler that has written the order sends its
\* response (200 or an error), the order carries the request's driver and
\* that driver is unavailable.
C5_AssignmentOneUnit ==
  [][\A r \in Slots :
       (FinishStep(r) /\ reqs[r].pc \in {"updateDriver", "notify"}) =>
         /\ orders'[reqs[r].orderId].driverId = reqs[r].driverId
         /\ ~drivers'[reqs[r].driverId].isAvailable]_vars

\* C6: an order whose stored status is delivered or cancelled keeps that
\* status in every step.
C6_TerminalIsFinal ==
  [][\A o \in DOMAIN orders :
       orders[o].status \in TerminalStatuses =>
         o \in DOMAIN orders' /\ orders'[o].status = orders[o].status]_vars

C8_CreateRejectsMissing ==
  [][( /\ ServedStep("post")
       /\ \E k \in {"customerName", "customerPhone", "deliveryAddress"} :
            k \notin DOMAIN last'.body \/ last'.body[k] = "" )
     => /\ last'.code = 400
        /\ orders' = orders
        /\ notifications' = notifications]_vars

C8_Witness ==
  /\ last.op = "post" /\ last.code = 400
  /\ "customerPhone" \notin DOMAIN last.body
  /\ last.seq = nreq
  /\ DOMAIN orders # {}

\* C9: every stored order has total = subtotal + deliveryFee.
C9_TotalIsSum ==
  \A o \in DOMAIN orders :
    orders[o].total = orders[o].subtotal + orders[o].deliveryFee

Listed == {last.list[i] : i \in 1 .. Len(last.list)}

StoredRows == {orders[o] : o \in DOMAIN orders}

\* C11 as stated: a list response holds each stored order that agrees with
\* every filter present in the query exactly once, and no other order.
C11_ListMatchesFilters ==
  last.op = "list" =>
    /\ Listed = {row \in StoredRows :
                   \A k \in DOMAIN last.body : row[k] = last.body[k]}
    /\ Len(last.list) = Cardinality(Listed)

\* C11 as amended: a filter applies when its value is non-empty and, for
\* status, is not "all"; a list response holds each stored order that agrees
\* with every applied filter exactly once, and no other order.
C11_ListMatchesAppliedFilters ==
  last.op = "list" =>
    LET applied == {k \in DOMAIN last.body :
                      last.body[k] # "" /\ ~(k = "status" /\ last.body[k] = "all")}
    IN  /\ Listed = {row \in StoredRows :
                       \A k \in applied : row[k] = last.body[k]}
        /\ Len(last.list) = Cardinality(Listed)

\* Two filters at once keep one stored order and drop another.
C11_Witness ==
  /\ last.op = "list"
  /\ DOMAIN last.body = {"status", "restaurantId"}
  /\ last.body.status # "all"
  /\ Len(last.list) = 1
  /\ Cardinality(DOMAIN orders) = 2

\* C12 as stated: in a list response each entry was created strictly later
\* than the entry that follows it.
C12_ListStrictlyDescending ==
  last.op = "list" =>
    \A i \in 1 .. (Len(last.list) - 1) :
      last.list[i].createdAt > last.list[i + 1].createdAt

\* C12 as amended: in a list response no entry was created earlier than the
\* entry that follows it.
C12_ListDescending ==
  last.op = "list" =>
    \A i \in 1 .. (Len(last.list) - 1) :
      last.list[i].createdAt >= last.list[i + 1].createdAt

\* The order stored second is listed first.
C12_Witness ==
  /\ last.op = "list"
  /\ Len(last.list) = 2
  /\ last.list[1].createdAt > last.list[2].createdAt
  /\ last.list[1].id > last.list[2].id

C16_UnknownStatusFallback ==
  [][( /\ ServedStep("put")
       /\ last'.id \in DOMAIN orders
       /\ "status" \in DOMAIN last'.body
       /\ last'.body.status \notin Statuses \cup {"", Null} )
     => /\ last'.code = 200
        /\ orders'[last'.id].status = last'.body.status
        /\ notifications' # notifications =>
             /\ Len(notifications') = Len(notifications) + 1
             /\ SubSeq(notifications', 1, Len(notifications)) = notifications
             /\ LET n == notifications'[Len(notifications')]
                IN  /\ n.type = "order_update"
                    /\ n.recipientType = "customer"
                    /\ n.orderId = last'.id
                    /\ n.message = FallbackMessage]_vars

C16_Witness ==
  /\ last.op = "put" /\ last.code = 200
  /\ last.body = [status |-> "bogus"]
  /\ orders[last.id].status = "bogus"
  /\ notifications # <<>>
  /\ notifications[Len(notifications)].message = FallbackMessage
  /\ notifications[Len(notifications)].orderId = last.id

StoresUnchanged ==
  orders' = orders /\ drivers' = drivers /\ notifications' = notifications

\* C14: when the notification of a create, update or assign-driver request is
\* not stored, the request is still answered 201 / 200 and its write stays:
\* the created order is in the store, the updated order has the requested
\* status, the assigned order has its driver and the driver is unavailable.
C14_NotificationFailureNonFatal ==
  [][/\ ( /\ ServedStep("post")
          /\ DOMAIN orders' # DOMAIN orders
          /\ notifications' = notifications )
        => /\ last'.code = 201
           /\ last'.id \in DOMAIN orders'
           /\ orders'[last'.id].status = "pending"
     /\ ( /\ ServedStep("put")
          /\ last'.id \in DOMAIN orders
          /\ "status" \in DOMAIN last'.body
          /\ notifications' = notifications )
        => /\ last'.code = 200
           /\ orders'[last'.id].status = last'.body.status
     /\ \A r \in Slots :
          ( /\ reqs[r].pc = "notify"
            /\ reqs'[r] # reqs[r]
            /\ notifications' = notifications )
          => /\ Answered(reqs'[r], 200, "")
             /\ orders' = orders /\ drivers' = drivers]_vars

\* An assignment answered 200 although no notification was ever stored.
C14_Witness ==
  \E r \in Slots :
    /\ Answered(reqs[r], 200, "")
    /\ notifications = <<>>
    /\ orders[reqs[r].orderId].driverId = reqs[r].driverId
    /\ ~drivers[reqs[r].driverId].isAvailable

\* C15: a create, update or status request answered 400 or 404 changes no
\* order, driver or notification; an assign-driver handler changes none of
\* them in the step that answers 400 or 404, nor in any step before its
\* order write, and it answers 400 or 404 only before that write.
C15_ErrorsBeforeMutation ==
  [][/\ \A op \in {"post", "put", "patch"} :
          (ServedStep(op) /\ last'.code \in {400, 404}) => StoresUnchanged
     /\ \A r \in Slots :
          reqs'[r] # reqs[r] =>
            /\ (reqs'[r].pc = "done" /\ reqs'[r].code \in {400, 404}) =>
                 /\ StoresUnchanged
                 /\ reqs[r].pc \in {"idle", "done", "getOrder", "getDriver",
                                    "updateOrder"}
            /\ reqs[r].pc \in {"idle", "done", "getOrder", "getDriver"} =>
                 StoresUnchanged]_vars

\* An unknown driver is refused with an order in the store and left unassigned.
C15_Witness ==
  \E r \in Slots :
    /\ Answered(reqs[r], 404, "driverNotFound")
    /\ reqs[r].orderId \in DOMAIN orders
    /\ ~HasDriver(orders[reqs[r].orderId])
    /\ \A d \in DOMAIN drivers : drivers[d].isAvailable

Timeline == <<"pending", "confirmed", "preparing", "ready",
              "picked_up", "on_way", "delivered">>

\* C17: the tracking array of a track response lists the statuses of the
\* table from "pending" up to and including the status of the tracked order,
\* one entry each and in table order; it is empty when that status is not in
\* the table.
C17_TrackingIsPrefix ==
  (last.op = "track" /\ last.code = 200) =>
    LET hits == {k \in DOMAIN Timeline : Timeline[k] = last.order.status}
    IN  /\ hits = {} => last.tracking = <<>>
        /\ \A k \in hits :
             /\ Len(last.tracking) = k
             /\ \A i \in 1 .. k : last.tracking[i].status = Timeline[i]

C17_Witness ==
  /\ last.op = "track" /\ last.code = 200
  /\ last.order.status = "ready"
  /\ Len(last.tracking) = 4
  /\ last.tracking[4].status = "ready"

\* C18: a track request changes no order, driver or notification, and a
\* track request that directly follows a track request for the same order
\* returns the same tracking array.
C18_TrackIdempotent ==
  [][ServedStep("track") =>
       /\ StoresUnchanged
       /\ ( /\ last.op = "track" /\ last.code = 200
            /\ last'.id = last.id )
          => /\ last'.code = 200
             /\ last'.tracking = last.tracking]_vars

\* A track response for an untouched order, served as the third request and
\* after the clock has moved on.
C18_Witness ==
  /\ last.op = "track" /\ last.code = 200 /\ last.seq = 3
  /\ Cardinality(DOMAIN orders) = 1
  /\ last.order.updatedAt = last.order.createdAt
  /\ last.order.createdAt < now
  /\ last.tracking # <<>>

C20_CancelReachable ==
  \A o \in DOMAIN orders :
    (orders[o].status \in Statuses \ TerminalStatuses /\ nreq < MaxRequests) =>
      ENABLED ( /\ PutOrder(o, [status |-> "cancelled"], TRUE)
                /\ last'.code = 200
                /\ orders'[o].status = "cancelled" )

\* An order with a driver, on its way and then cancelled by the next update.
C20_Witness ==
  /\ last.op = "put" /\ last.code = 200
  /\ last.body = [status |-> "cancelled"]
  /\ orders[last.id].status = "cancelled"
  /\ HasDriver(orders[last.id])
  /\ Len(notifications) >= 2
  /\ LET n == Len(notifications)
     IN  /\ notifications[n].orderId = last.id
         /\ notifications[n].message = StatusMessages.cancelled
         /\ notifications[n - 1].orderId = last.id
         /\ notifications[n - 1].message = StatusMessages.on_way

\* Position of a status in the forward sequence, 0 for a status outside it.
Position(status) ==
  IF \E k \in DOMAIN Timeline : Timeline[k] = status
  THEN CHOOSE k \in DOMAIN Timeline : Timeline[k] = status
  ELSE 0

\* C23: an update of a stored order appends exactly one customer
\* "order_update" notification for that order when it changes the stored
\* status, and leaves the notifications alone when it does not (the
\* notification store working).
C23_NotificationIffStatusChange ==
  [][\A op \in {"put", "patch"} :
       (ServedStep(op) /\ last'.id \in DOMAIN orders) =>
         IF orders'[last'.id].status # orders[last'.id].status
         THEN /\ Len(notifications') = Len(notifications) + 1
              /\ SubSeq(notifications', 1, Len(notifications)) = notifications
              /\ notifications'[Len(notifications')].type = "order_update"
              /\ notifications'[Len(notifications')].orderId = last'.id
         ELSE notifications' = notifications]_vars

\* C30: the progress percentage of an order's status does not decrease in a
\* step that moves the order to a later position of the sequence pending,
\* confirmed, preparing, ready, picked_up, on_way, delivered, and it is 100
\* exactly for delivered orders.
C30_ProgressMonotone ==
  [][\A o \in DOMAIN orders :
       /\ GetStatusProgress(orders[o].status) = 100
            <=> orders[o].status = "delivered"
       /\ ( /\ o \in DOMAIN orders'
            /\ Position(orders[o].status) > 0
            /\ Position(orders'[o].status) > Position(orders[o].status) )
          => GetStatusProgress(orders'[o].status)
               >= GetStatusProgress(orders[o].status)]_vars

\* The advance request of dashboard d for order o has just been served.
AdvanceServed(d, o) ==
  /\ ServedStep("put")
  /\ last'.id = o
  /\ "updatedByType" \in DOMAIN last'.body
  /\ last'.body.updatedBy = d

\* The card of order o on dashboard d shows the stored status.
FreshView(d, o) ==
  LET tabs  == CategorizeOrders(d)
      shown == tabs.accepted \o tabs.inProgress \o tabs.completed
  IN  o \in DOMAIN orders /\ o \in IdsOf(shown)
      /\ RowOf(shown, o).status = orders[o].status

\* The messages of the status notifications of order o, oldest first.
UpdatesOf(o) ==
  LET rows == SelectSeq(notifications, LAMBDA n :
                 n.type = "order_update" /\ n.orderId = o)
  IN  [i \in 1 .. Len(rows) |-> rows[i].message]

\* C22: the successor of a status is the next one of confirmed, preparing,
\* ready, picked_up, on_way, delivered, and pending, delivered and cancelled
\* have none; an advance sent from a card that shows the stored status moves
\* the order exactly one position up that chain, so that four advances take
\* a just-assigned order from preparing to delivered; and a card that shows
\* a delivered order offers no advance.
C22_AdvanceChain ==
  [][/\ \A s \in Statuses :
          GetNextStatus(s) = IF Position(s) \in 2 .. 6
                             THEN <<Timeline[Position(s) + 1]>> ELSE <<>>
     /\ \A d \in ActiveDashboards, o \in DOMAIN orders :
          /\ (FreshView(d, o) /\ AdvanceServed(d, o)) =>
               /\ Position(orders[o].status) \in 3 .. 6
               /\ orders'[o].status = Timeline[Position(orders[o].status) + 1]
          /\ (FreshView(d, o) /\ orders[o].status = "delivered") =>
               ~AdvanceOffered(d, o)]_vars

\* Reached: an order delivered by four advances of the dashboard, shown as
\* delivered and without an advance button.
C22_Witness ==
  \E o \in DOMAIN orders :
    /\ orders[o].status = "delivered"
    /\ UpdatesOf(o) = << StatusMessages.confirmed, StatusMessages.ready,
                         StatusMessages.picked_up, StatusMessages.on_way,
                         StatusMessages.delivered >>
    /\ FreshView("d1", o)
    /\ ~AdvanceOffered("d1", o)
    /\ dash["d1"].driverStatus = "available"

\* C24: an update request, sent by a dashboard advance or by the restaurant
\* or an administrator moving the order forward, never takes the stored
\* status of an order to an earlier position of the sequence.
C24_StatusOnlyForward ==
  [][\A o \in DOMAIN orders :
       (ServedStep("put") /\ last'.id = o) =>
         Position(orders'[o].status) >= Position(orders[o].status)]_vars

\* The order is neither delivered nor cancelled.
Undelivered(o) == orders[o].status \notin {"delivered", "cancelled"}

\* C25: no driver is the driver of two different orders that are neither
\* delivered nor cancelled.
C25_OneUndeliveredOrderPerDriver ==
  \A o1 \in DOMAIN orders, o2 \in DOMAIN orders :
    ( /\ o1 # o2
      /\ ~Falsy(orders[o1], "driverId")
      /\ Undelivered(o1)
      /\ Undelivered(o2) )
    => orders[o2].driverId # orders[o1].driverId

\* C26: when no assign-driver request is in the middle of its handler, the
\* driver of every order that is neither delivered nor cancelled is stored
\* with isAvailable = FALSE.
C26_BusyDriverUnavailable ==
  NoneInFlight =>
    \A o \in DOMAIN orders :
      ( /\ Undelivered(o)
        /\ ~Falsy(orders[o], "driverId")
        /\ orders[o].driverId \in DOMAIN drivers )
      => drivers[orders[o].driverId].isAvailable = FALSE

\* C27: a dashboard that shows its driver as 'available', with no accept of
\* its own awaiting an answer and no assign-driver request in its handler,
\* belongs to a driver stored with isAvailable = TRUE.
C27_LocalStatusAgreesWithStore ==
  \A d \in ActiveDashboards :
    ( /\ dash[d].driverStatus = "available"
      /\ dash[d].accepting = 0
      /\ NoneInFlight )
    => drivers[d].isAvailable = TRUE

\* C28: on a dashboard with no accept of its own awaiting an answer, no
\* order is listed both in the available tab and in one of the driver's own
\* tabs (accepted, in progress, completed).
C28_TabsDisjoint ==
  \A d \in ActiveDashboards :
    (dash[d].accepting = 0 /\ NoneInFlight) =>
      LET tabs == CategorizeOrders(d)
      IN  IdsOf(tabs.available)
            \cap (IdsOf(tabs.accepted) \cup IdsOf(tabs.inProgress)
                    \cup IdsOf(tabs.completed)) = {}

\* The distance in metres of a place of LocationInputs from the restaurant,
\* measured along the meridian (11.1195 m for each 0.0001 degree).
MetresFromRestaurant(location) ==
  (Abs(location.lat - RestaurantLat) * 111195) \div 10000

OrderAccepted == Cardinality(DOMAIN orders') = Cardinality(DOMAIN orders) + 1

====
